---- MODULE Spec2Model ----
(***************************************************************************)
(* Model of main.py: the UltimateCoinFinder provider client and the        *)
(* /predict handler of the bull-market predictor bot.                      *)
(*                                                                         *)
(* Numbers are scaled to integers:                                         *)
(*   sentiment and strength   in tenths      (0.9 -> 9, 1.1 -> 11)         *)
(*   BTC dominance            in percent     (42 -> 42)                    *)
(*   ETH/BTC ratio            in thousandths (0.065 -> 65)                 *)
(*   ROI                      in hundredths, rounded down (2.0 -> 200);    *)
(*     rounding down keeps every comparison `roi >= k` exact.              *)
(* A Python None is the empty tuple, a present value v is <<v>>.           *)
(* A task is suspended only at an await on the network, so every action    *)
(* runs the handler from one provider response to the next request.        *)
(***************************************************************************)
EXTENDS Integers, Sequences, FiniteSets, TLC

NumTurns == 2

Turns == 1..NumTurns

None == <<>>

Some(v) == <<v>>

(* ---------------- text ------------------------------------------------- *)

LowerChar(c) ==
    CASE c = "E" -> "e"
      [] c = "O" -> "o"
      [] c = "S" -> "s"
      [] c = "B" -> "b"
      [] c = "T" -> "t"
      [] c = "C" -> "c"
      [] OTHER -> c

\* str.lower() of line 43
Lower(q) == [i \in 1..Len(q) |-> LowerChar(q[i])]

\* the coin argument of a /predict message (parts[1])
Queries == { <<"E", "O", "S">>, <<"b", "t", "c">> }

\* ids the provider serves under /coins/<id>
AssetIds == { <<"e", "o", "s">>, <<"b", "i", "t", "c", "o", "i", "n">> }

\* non-empty 'coins' arrays a search can return, in provider order
CoinLists == { << <<"e", "o", "s">> >>,
               << <<"b", "i", "t", "c", "o", "i", "n">>, <<"e", "o", "s">> >> }

(* ---------------- the market the provider reports ---------------------- *)

Currents == {-1, 0, 1, 2, 4}

Aths == {-1, 0, 1, 2, 3, 5, 25, 50, 125, 250}

Changes == {-10, -5, -3, 0, 3, 5, 10, 15, 20}

Dominances == {40, 42, 44, 45, 48, 50, 60}

EthBtcs == {60, 65, 70}

Markets == [current : Currents, ath : Aths, change : Changes,
            dominance : Dominances, eth_btc : EthBtcs]

\* markets on both sides of every test that decides whether the handler raises
ControlMarkets == [current : {-1, 0, 1}, ath : {0, 5}, change : {-10, 20},
                   dominance : {40, 50}, eth_btc : {60, 70}]

\* the one market of the specification of concurrent turns
SmallMarkets == [current : {1}, ath : {5}, change : {-10},
                 dominance : {44}, eth_btc : {70}]

(* ---------------- replies ---------------------------------------------- *)

Usage == "Usage: /predict <coin>"

NotFound == "No cryptocurrency found"

SearchUnavailable == "Search temporarily unavailable"

FetchError == "Error fetching data."

PredictionError == "Error during prediction. Try again later."

Prediction == "PREDICTION"

TextReply(kind) ==
    [kind |-> kind, sentiment |-> 0, strength |-> 0, dominance |-> 0,
     roi |-> 0, assessment |-> ""]

(* ---------------- UltimateCoinFinder ----------------------------------- *)

NoSession == 0

get_session_always_new(sess, cnt) == [session |-> cnt + 1, created |-> cnt + 1]

\* get_session has no await inside: the test and the assignment are one step.
\* The session is never closed (nothing calls close), so `closed` is False.
get_session(sess, cnt) ==
    IF sess = NoSession
    THEN [session |-> cnt + 1, created |-> cnt + 1]
    ELSE [session |-> sess, created |-> cnt]

Found(id) == [found |-> TRUE, coin_id |-> id, error |-> ""]

NoResult == [found |-> FALSE, coin_id |-> <<>>, error |-> ""]

(* ---------------- scoring (predict_handler, lines 127-177) ------------- *)

\* ath_distance > tenths/10, with ath_distance = current / ath if ath > 0 else 0
AthDistanceAbove(current, ath, tenths) ==
    IF ath > 0 THEN 10 * current > tenths * ath ELSE 0 > tenths

Max(a, b) == IF a >= b THEN a ELSE b

SentimentOverwrite(change, current, ath) ==
    LET s == IF change > 15 THEN 9
             ELSE IF change > 5 THEN 7
             ELSE IF change > 0 THEN 6
             ELSE IF change > -5 THEN 4
             ELSE 2
    IN  IF AthDistanceAbove(current, ath, 8) THEN 8
        ELSE IF AthDistanceAbove(current, ath, 5) THEN 6
        ELSE IF AthDistanceAbove(current, ath, 2) THEN 5
        ELSE s

Sentiment(change, current, ath) ==
    LET s == IF change > 15 THEN 9
             ELSE IF change > 5 THEN 7
             ELSE IF change > 0 THEN 6
             ELSE IF change > -5 THEN 4
             ELSE 2
    IN  IF AthDistanceAbove(current, ath, 8) THEN Max(s, 8)
        ELSE IF AthDistanceAbove(current, ath, 5) THEN Max(s, 6)
        ELSE IF AthDistanceAbove(current, ath, 2) THEN Max(s, 5)
        ELSE s

\* line 149; raises KeyError when the metrics lack market_cap_percentage.btc
DominanceRaises(global_data) ==
    global_data # None /\ ~global_data[1].has_btc

BtcDominance(global_data) ==
    IF global_data # None THEN global_data[1].btc ELSE 50

\* line 151: `None > 0.065` raises TypeError once btc_dominance < 42 is true
StrengthRaises(btc_dominance, eth_btc_ratio) ==
    btc_dominance < 42 /\ eth_btc_ratio = None

Strength(btc_dominance, eth_btc_ratio) ==
    IF btc_dominance < 42 /\ eth_btc_ratio # None /\ eth_btc_ratio[1] > 65 THEN 30
    ELSE IF btc_dominance < 45 THEN 20
    ELSE IF btc_dominance < 50 THEN 15
    ELSE 11

FloorDiv(a, b) == IF b > 0 THEN a \div b ELSE (-a) \div (-b)

\* lines 160-161; raises ZeroDivisionError when current = 0
RoiRaises(current) == current = 0

Roi(ath, sentiment, strength, current) ==
    FloorDiv(ath * sentiment * strength, current)

AssessmentStrict(roi) ==
    IF roi > 10000 THEN "MOONSHOT POTENTIAL"
    ELSE IF roi > 5000 THEN "EXTREME UPSIDE"
    ELSE IF roi > 2000 THEN "VERY BULLISH"
    ELSE IF roi > 1000 THEN "STRONG UPSIDE"
    ELSE IF roi > 500 THEN "MODERATE UPSIDE"
    ELSE IF roi > 200 THEN "LIMITED UPSIDE"
    ELSE "BEARISH OUTLOOK"

Assessment(roi) ==
    IF roi >= 10000 THEN "MOONSHOT POTENTIAL"
    ELSE IF roi >= 5000 THEN "EXTREME UPSIDE"
    ELSE IF roi >= 2000 THEN "VERY BULLISH"
    ELSE IF roi >= 1000 THEN "STRONG UPSIDE"
    ELSE IF roi >= 500 THEN "MODERATE UPSIDE"
    ELSE IF roi >= 200 THEN "LIMITED UPSIDE"
    ELSE "BEARISH OUTLOOK"

\* line 187: `{eth_btc_ratio:.5f}` raises TypeError on None
FormatRaises(eth_btc_ratio) == eth_btc_ratio = None

(* ---------------- predict_handler -------------------------------------- *)

predict_except_silent(rs) == rs

\* lines 195-197: every exception of the turn becomes one reply
predict_except(rs) == Append(rs, TextReply(PredictionError))

predict_user_states_pending(us, t) == us \cup {t}

\* the handler never assigns to user_states
predict_user_states(us, t) == us

\* lines 149-194, run once both market-wide lookups have returned
Report(md, global_data, eth_btc_ratio) ==
    LET btc_dominance == BtcDominance(global_data)
        strength == Strength(btc_dominance, eth_btc_ratio)
        roi == Roi(md.ath, md.sentiment, strength, md.current)
    IN  [kind |-> Prediction, sentiment |-> md.sentiment, strength |-> strength,
         dominance |-> btc_dominance, roi |-> roi, assessment |-> Assessment(roi)]

ReportRaises(md, global_data, eth_btc_ratio) ==
    \/ DominanceRaises(global_data)
    \/ StrengthRaises(BtcDominance(global_data), eth_btc_ratio)
    \/ RoiRaises(md.current)
    \/ FormatRaises(eth_btc_ratio)

VARIABLES
    market,         \* what the provider reports: prices, dominance, ETH/BTC
    session,        \* finder.session: NoSession or the id of the ClientSession
    created,        \* number of ClientSession objects constructed so far
    user_states,    \* keys of the module-level dict user_states
    resolved,       \* queries for which a search_coin call has returned found
    pc,             \* where each turn is suspended
    query,          \* parts[1], the argument of the running search_coin
    held,           \* the session object the turn's pending request runs on
    search_result,  \* what search_coin returned
    md,             \* current, ath and sentiment of lines 122-145
    global_data,    \* what get_global_metrics returned
    replies,        \* the replies sent to the user, in order
    trace           \* the provider exchanges of the turn's current stage

vars == <<market, session, created, user_states, resolved, pc, query, held,
          search_result, md, global_data, replies, trace>>

\* A turn has three stages: search_coin (search, fallback), get_coin_data (coin)
\* and the market-wide lookups (global, eth). trace keeps how each provider
\* call of the current stage ended; the coin status is kept to the end.
\*   requests: provider requests search_coin has sent
\*   prior:    a search_coin of the same query had returned found before
NoTrace ==
    [search |-> "", coins |-> <<>>, fallback |-> "", fallback_id |-> <<>>,
     coin |-> "", global |-> "", eth |-> "", requests |-> 0, prior |-> FALSE]

InitTurns ==
    /\ session = NoSession
    /\ created = 0
    /\ user_states = {}
    /\ resolved = {}
    /\ pc = [t \in Turns |-> "idle"]
    /\ query = [t \in Turns |-> <<>>]
    /\ held = [t \in Turns |-> NoSession]
    /\ search_result = [t \in Turns |-> NoResult]
    /\ md = [t \in Turns |-> None]
    /\ global_data = [t \in Turns |-> None]
    /\ replies = [t \in Turns |-> <<>>]
    /\ trace = [t \in Turns |-> NoTrace]

Init == market \in SmallMarkets /\ InitTurns

InitMarkets == market \in Markets /\ InitTurns

InitControl == market \in ControlMarkets /\ InitTurns

\* the handler returns: its locals are gone
Return(t) ==
    /\ pc' = [pc EXCEPT ![t] = "done"]
    /\ query' = [query EXCEPT ![t] = <<>>]
    /\ held' = [held EXCEPT ![t] = NoSession]
    /\ search_result' = [search_result EXCEPT ![t] = NoResult]
    /\ md' = [md EXCEPT ![t] = None]
    /\ global_data' = [global_data EXCEPT ![t] = None]

\* the turn ends with reply r
Finish(t, r) ==
    /\ replies' = [replies EXCEPT ![t] = Append(@, r)]
    /\ Return(t)

\* the turn ends in the handler's except clause
Raise(t) ==
    /\ replies' = [replies EXCEPT ![t] = predict_except(@)]
    /\ Return(t)

\* a finder method calls get_session and sends its request
Request(t, next) ==
    LET s == get_session(session, created)
    IN  /\ session' = s.session
        /\ created' = s.created
        /\ held' = [held EXCEPT ![t] = s.session]
        /\ pc' = [pc EXCEPT ![t] = next]

\* lines 104-107: a /predict message without a coin
ReceiveNoCoin(t) ==
    /\ pc[t] = "idle"
    /\ Finish(t, TextReply(Usage))
    /\ user_states' = predict_user_states(user_states, t)
    /\ UNCHANGED <<market, session, created, resolved, trace>>

\* lines 104-110 and 27-30: a /predict <coin> message, up to the search request
Receive(t) ==
    /\ pc[t] = "idle"
    /\ \E q \in Queries :
        /\ query' = [query EXCEPT ![t] = q]
        /\ trace' = [trace EXCEPT ![t].prior = (q \in resolved),
                                  ![t].requests = 1]
    /\ Request(t, "search")
    /\ user_states' = predict_user_states(user_states, t)
    /\ UNCHANGED <<market, resolved, search_result, md, global_data, replies>>

\* search_coin returns found: lines 111-116 and 59-62, up to the detail request
Resolved(t, id) ==
    /\ search_result' = [search_result EXCEPT ![t] = Found(id)]
    /\ resolved' = resolved \cup {query[t]}
    /\ query' = [query EXCEPT ![t] = <<>>]
    /\ Request(t, "coin")
    /\ UNCHANGED <<market, user_states, md, global_data, replies>>

\* search_coin returns not found: lines 111-113
Unresolved(t, err) ==
    /\ Finish(t, TextReply(err))
    /\ UNCHANGED <<market, session, created, user_states, resolved>>

\* lines 30-42: a 200 with candidates
SearchHit(t) ==
    /\ pc[t] = "search"
    /\ \E coins \in CoinLists :
        /\ trace' = [trace EXCEPT ![t].search = "hit", ![t].coins = coins]
        /\ Resolved(t, Head(coins))

\* lines 30-43: a 200 with an empty 'coins', or another status: on to
\* /coins/<query.lower()> on the session object of line 28
SearchMiss(t) ==
    /\ pc[t] = "search"
    /\ \E st \in {"empty", "non200"} :
        trace' = [trace EXCEPT ![t].search = st,
                               ![t].fallback_id = Lower(query[t]),
                               ![t].requests = 2]
    /\ pc' = [pc EXCEPT ![t] = "fallback"]
    /\ UNCHANGED <<market, session, created, user_states, resolved, query, held,
                   search_result, md, global_data, replies>>

\* lines 54-56: a timeout or transport error ("timeout"), or a 200 whose body
\* lacks a field ("malformed")
SearchFails(t) ==
    /\ pc[t] = "search"
    /\ \E st \in {"timeout", "malformed"} :
        trace' = [trace EXCEPT ![t].search = st]
    /\ Unresolved(t, SearchUnavailable)

\* lines 43-52: the direct lookup finds the asset
FallbackOk(t) ==
    /\ pc[t] = "fallback"
    /\ trace[t].fallback_id \in AssetIds
    /\ trace' = [trace EXCEPT ![t].fallback = "ok"]
    /\ Resolved(t, trace[t].fallback_id)

\* line 53
FallbackNon200(t) ==
    /\ pc[t] = "fallback"
    /\ trace' = [trace EXCEPT ![t].fallback = "non200"]
    /\ Unresolved(t, NotFound)

\* lines 54-56
FallbackFails(t) ==
    /\ pc[t] = "fallback"
    /\ \E st \in {"timeout", "malformed"} :
        /\ st = "malformed" => trace[t].fallback_id \in AssetIds
        /\ trace' = [trace EXCEPT ![t].fallback = st]
    /\ Unresolved(t, SearchUnavailable)

\* lines 62-64, 117-147 and 71-73: the asset detail arrives, up to /global
CoinOk(t) ==
    /\ pc[t] = "coin"
    /\ trace' = [trace EXCEPT ![t] = [NoTrace EXCEPT !.coin = "ok"]]
    /\ md' = [md EXCEPT ![t] = Some(
                [current |-> market.current, ath |-> market.ath,
                 sentiment |-> Sentiment(market.change, market.current, market.ath)])]
    /\ Request(t, "global")
    /\ UNCHANGED <<market, user_states, resolved, query, search_result,
                   global_data, replies>>

\* a 200 whose body lacks market_data, a price or a numeric change: KeyError
\* or TypeError in lines 121-128
CoinMalformed(t) ==
    /\ pc[t] = "coin"
    /\ trace' = [trace EXCEPT ![t] = [NoTrace EXCEPT !.coin = "malformed"]]
    /\ Raise(t)
    /\ UNCHANGED <<market, session, created, user_states, resolved>>

\* lines 65-68 and 117-119: get_coin_data returns None
CoinFails(t) ==
    /\ pc[t] = "coin"
    /\ \E st \in {"non200", "timeout"} :
        trace' = [trace EXCEPT ![t] = [NoTrace EXCEPT !.coin = st]]
    /\ Finish(t, TextReply(FetchError))
    /\ UNCHANGED <<market, session, created, user_states, resolved>>

\* lines 73-79, 148 and 82-84: the global metrics arrive, up to /simple/price.
\* "no_btc": data['data'] lacks market_cap_percentage.btc; "malformed": the
\* body lacks 'data' (KeyError, caught in line 77)
GlobalResponse(t) ==
    /\ pc[t] = "global"
    /\ \E st \in {"ok", "no_btc", "malformed", "non200", "timeout"} :
        /\ trace' = [trace EXCEPT ![t].global = st]
        /\ global_data' = [global_data EXCEPT ![t] =
                CASE st = "ok" -> Some([has_btc |-> TRUE, btc |-> market.dominance])
                  [] st = "no_btc" -> Some([has_btc |-> FALSE, btc |-> 0])
                  [] OTHER -> None]
    /\ Request(t, "eth")
    /\ UNCHANGED <<market, user_states, resolved, query, search_result, md,
                   replies>>

\* lines 84-91 and 149-197: the ETH/BTC price arrives and the turn ends
EthResponse(t) ==
    /\ pc[t] = "eth"
    /\ \E st \in {"ok", "malformed", "non200", "timeout"} :
        LET eth_btc_ratio == IF st = "ok" THEN Some(market.eth_btc) ELSE None
        IN  /\ trace' = [trace EXCEPT ![t].eth = st]
            /\ IF ReportRaises(md[t][1], global_data[t], eth_btc_ratio)
               THEN Raise(t)
               ELSE Finish(t, Report(md[t][1], global_data[t], eth_btc_ratio))
    /\ UNCHANGED <<market, session, created, user_states, resolved>>

Step(t) ==
    \/ ReceiveNoCoin(t)
    \/ Receive(t)
    \/ SearchHit(t)
    \/ SearchMiss(t)
    \/ SearchFails(t)
    \/ FallbackOk(t)
    \/ FallbackNon200(t)
    \/ FallbackFails(t)
    \/ CoinOk(t)
    \/ CoinMalformed(t)
    \/ CoinFails(t)
    \/ GlobalResponse(t)
    \/ EthResponse(t)

Next == \E t \in Turns : Step(t)

\* concurrent turns over a small market
Spec == Init /\ [][Next]_vars

\* one turn over every market
TurnNext == Step(1)

TurnSpec == InitMarkets /\ [][TurnNext]_vars

\* the steps a started turn takes by itself: every request ends within the
\* ClientTimeout of line 22, and the event loop resumes the task
Continue(t) ==
    \/ SearchHit(t)
    \/ SearchMiss(t)
    \/ SearchFails(t)
    \/ FallbackOk(t)
    \/ FallbackNon200(t)
    \/ FallbackFails(t)
    \/ CoinOk(t)
    \/ CoinMalformed(t)
    \/ CoinFails(t)
    \/ GlobalResponse(t)
    \/ EthResponse(t)

FairTurnSpec == InitControl /\ [][TurnNext]_vars /\ WF_vars(Continue(1))

(* ---------------- properties ------------------------------------------- *)

Unavailable == {"non200", "timeout"}

InFlight == {"search", "fallback", "coin", "global", "eth"}

\* the one reply of a finished turn
OnlyReply(t) == replies[t][1]

Reported(t) == pc[t] = "done" /\ Len(replies[t]) = 1 /\ OnlyReply(t).kind = Prediction

C1_ChangeBucket(change) ==
    CASE change > 15 -> 9
      [] change <= 15 /\ change > 5 -> 7
      [] change <= 5 /\ change > 0 -> 6
      [] change <= 0 /\ change > -5 -> 4
      [] change <= -5 -> 2

\* 0 stands for "no contribution"; the ratio is 0 when ath <= 0
C1_AthBucket(current, ath) ==
    CASE ath > 0 /\ 10 * current > 8 * ath -> 8
      [] ath > 0 /\ 10 * current <= 8 * ath /\ 10 * current > 5 * ath -> 6
      [] ath > 0 /\ 10 * current <= 5 * ath /\ 10 * current > 2 * ath -> 5
      [] OTHER -> 0

\* C1: the sentiment the handler computes is the larger of the 24h-change
\* bucket and the distance-to-ATH bucket, and is one of 0.2, 0.4, 0.5, 0.6,
\* 0.7, 0.8, 0.9.
C1_SentimentIsMaxOfBuckets ==
    \A t \in Turns :
        md[t] # None =>
            /\ md[t][1].sentiment =
                   Max(C1_ChangeBucket(market.change),
                       C1_AthBucket(md[t][1].current, md[t][1].ath))
            /\ md[t][1].sentiment \in {2, 4, 5, 6, 7, 8, 9}

\* a turn in which the ATH bucket (0.8) beats the change bucket (0.7)
C1_Witness ==
    \E t \in Turns :
        /\ md[t] # None
        /\ market.change = 10
        /\ md[t][1].sentiment = 8

C2_Labels ==
    << "BEARISH OUTLOOK", "LIMITED UPSIDE", "MODERATE UPSIDE", "STRONG UPSIDE",
       "VERY BULLISH", "EXTREME UPSIDE", "MOONSHOT POTENTIAL" >>

C2_Rank(label) == CHOOSE i \in 1..7 : C2_Labels[i] = label

\* lower ends of the buckets, in hundredths: ROI 2, 5, 10, 20, 50, 100
C2_Floor == << 200, 500, 1000, 2000, 5000, 10000 >>

\* number of thresholds at or below roi, plus one
C2_Bucket(roi) == 1 + Cardinality({i \in 1..6 : roi >= C2_Floor[i]})

C2_Probes == {-100, 0, 199, 200, 201, 499, 500, 999, 1000, 1999, 2000, 4999,
              5000, 9999, 10000, 20000}

\* C2: the assessment of every report is the label of the ROI's bucket, with
\* the thresholds 2, 5, 10, 20, 50, 100 belonging to the higher bucket and
\* everything below 2 bearish; the labels never go down as the ROI goes up.
C2_AssessmentIsMonotoneStep ==
    \A t \in Turns :
        Reported(t) =>
            LET r == OnlyReply(t)
            IN  /\ \E i \in 1..7 : r.assessment = C2_Labels[i]
                /\ C2_Rank(r.assessment) = C2_Bucket(r.roi)
                /\ r.roi < 200 => r.assessment = "BEARISH OUTLOOK"
                /\ \A p \in C2_Probes :
                      /\ p <= r.roi => C2_Rank(Assessment(p)) <= C2_Rank(r.assessment)
                      /\ p >= r.roi => C2_Rank(Assessment(p)) >= C2_Rank(r.assessment)

\* a report whose ROI is exactly 2
C2_Witness ==
    \E t \in Turns :
        /\ Reported(t)
        /\ OnlyReply(t).roi = 200
        /\ OnlyReply(t).assessment = "LIMITED UPSIDE"

\* C3: when the global-metrics or the ETH/BTC lookup is unavailable after a
\* successful search and asset-detail fetch (positive price and ATH), the turn
\* still ends with a prediction report, computed with BTC dominance 50 and
\* strength 1.1 when the global metrics are the missing ones.
C3_MetricsOutageStillReports ==
    \A t \in Turns :
        ( /\ pc[t] = "done"
          /\ trace[t].coin = "ok"
          /\ market.current > 0
          /\ market.ath > 0
          /\ trace[t].global \in Unavailable \cup {"ok"}
          /\ trace[t].eth \in Unavailable \cup {"ok"}
          /\ trace[t].global \in Unavailable \/ trace[t].eth \in Unavailable )
        => /\ Reported(t)
           /\ trace[t].global \in Unavailable =>
                 OnlyReply(t).dominance = 50 /\ OnlyReply(t).strength = 11

\* C4: a fetched current price <= 0 (of an asset with a positive ATH) ends the
\* turn without a prediction report, in an error reply other than the
\* provider-unavailable ones.
C4_NonPositivePriceIsRejected ==
    \A t \in Turns :
        ( /\ pc[t] = "done"
          /\ trace[t].coin = "ok"
          /\ market.ath > 0
          /\ market.current <= 0 )
        => /\ Len(replies[t]) = 1
           /\ OnlyReply(t).kind \notin {Prediction, SearchUnavailable, FetchError}

\* C5: every started predict turn ends, with exactly one reply sent, whatever
\* the provider does; before it ends nothing has been sent.
C5_EveryTurnEndsWithOneReply ==
    /\ \A t \in Turns : (pc[t] # "idle") ~> (pc[t] = "done")
    /\ [](\A t \in Turns :
            /\ pc[t] = "done" => Len(replies[t]) = 1
            /\ pc[t] # "done" => Len(replies[t]) = 0)

\* a turn that ended in the handler's except clause
C5_Witness ==
    \E t \in Turns :
        /\ pc[t] = "done"
        /\ trace[t].eth = "timeout"
        /\ replies[t] = << TextReply(PredictionError) >>

\* C6: search_coin sends the direct lookup, for the lowercased query, exactly
\* when the search returned no candidate; it returns the asset that lookup
\* finds, the first candidate when there are candidates (without a lookup),
\* and not-found only when search and lookup both came back empty.
C6_FallbackExactlyOnEmptySearch ==
    \A t \in Turns :
        /\ trace[t].requests = 2 <=> trace[t].search = "empty"
        /\ pc[t] = "fallback" => trace[t].fallback_id = Lower(query[t])
        /\ trace[t].search = "hit" =>
              /\ search_result[t] = Found(Head(trace[t].coins))
              /\ trace[t].requests = 1
        /\ trace[t].fallback = "ok" => search_result[t] = Found(trace[t].fallback_id)
        /\ (pc[t] = "done" /\ OnlyReply(t).kind = NotFound) =>
              trace[t].search = "empty" /\ trace[t].fallback = "non200"

\* C7: a search call that ends in a timeout, a transport error or a non-2xx
\* status never resolves to an asset, and the turn replies 'Search temporarily
\* unavailable'.
C7_FailedSearchIsUnavailable ==
    \A t \in Turns :
        trace[t].search \in Unavailable =>
            /\ ~search_result[t].found
            /\ pc[t] = "done" => replies[t] = << TextReply(SearchUnavailable) >>

\* C8: a search_coin for a query that an earlier search_coin has resolved
\* sends no request to the provider.
C8_RepeatedQuerySendsNoRequest ==
    \A t \in Turns : trace[t].prior => trace[t].requests = 0

NoCallYet(t) ==
    \/ pc[t] = "idle"
    \/ pc[t] = "done" /\ replies[t] = << TextReply(Usage) >>

\* C9: the ClientSession is created by the first provider call and only once;
\* every turn with a request in flight runs it on that one object.
C9_OneSharedSession ==
    /\ created <= 1
    /\ session = NoSession <=> created = 0
    /\ created = 0 <=> \A t \in Turns : NoCallYet(t)
    /\ \A t \in Turns :
          pc[t] \in InFlight => held[t] = session /\ session # NoSession

\* two turns with requests in flight at once
C9_Witness ==
    \E t1, t2 \in Turns :
        /\ t1 # t2
        /\ pc[t1] \in InFlight
        /\ pc[t2] = "eth"
        /\ held[t1] = held[t2]
        /\ created = 1

\* C10: no predict turn leaves or finds pending per-user state: user_states
\* is empty in every reachable state.
C10_NoPendingUserState == user_states = {}

\* one turn has reported a prediction while another is still in flight
C10_Witness ==
    \E t1, t2 \in Turns :
        /\ Reported(t1)
        /\ pc[t2] \in InFlight
        /\ user_states = {}

====
